---------------------------- MODULE Spec2Model ----------------------------
(***************************************************************************)
(* A model of the service layer of tgl (src/src/svc.rs) on top of the      *)
(* Toggl transport client (src/src/api.rs): the duration codec             *)
(* parse_duration, the write-once project cache behind get_project and     *)
(* get_projects, the entry assembler build_time_entry and the facade       *)
(* operations get_latest_entries, start_time_entry and                     *)
(* stop_current_time_entry.                                                *)
(*                                                                         *)
(* Machine integers are scaled down: an i64 is modelled as a signed        *)
(* integer of IntBits bits, and the ranges of chrono's Duration and        *)
(* DateTime are scaled with it, keeping their order                        *)
(*     timestamp range < Duration range < i64 range.                       *)
(* A second is divided into FracMax + 1 sub-second ticks.                  *)
(***************************************************************************)
EXTENDS Integers, Sequences, FiniteSets, TLC

VARIABLES
    overflow_checks,  \* build profile: TRUE = debug (overflow panics), FALSE = release (wraps)
    codec_now,        \* codec harness: the `now` argument of parse_duration
    codec_raw,        \* codec harness: the `duration` argument of parse_duration
    codec_out,        \* codec harness: outcome of the call, NotCalled before it
    project_cache,    \* Client.project_cache: key (workspace_id, project_id) -> Option<Project>
    first_reported,   \* history: key -> the (name, active) of the first successful fetch that held it
    crashed,          \* the process has panicked
    last              \* history: the last facade operation, its inputs, requests and result

vars == <<overflow_checks, codec_now, codec_raw, codec_out,
          project_cache, first_reported, crashed, last>>

codecVars == <<codec_now, codec_raw, codec_out>>
clientVars == <<project_cache, first_reported, crashed, last>>

-----------------------------------------------------------------------------
(* Bounds *)

IntBits == 8
FracMax == 1
NumWorkspaces == 2
MaxBatch == 2

-----------------------------------------------------------------------------
(* Option<T> and Result<T, E> *)

None == <<>>
Some(x) == <<x>>
IsSome(o) == Len(o) = 1
IsNone(o) == Len(o) = 0
Unwrap(o) == o[1]
Option(S) == {None} \cup {Some(x) : x \in S}

\* The element of a one-element set; Only({F(x) : x \in {e}}) evaluates e once
\* and names its value x in F.
Only(S) == CHOOSE x \in S : TRUE

Ok(x) == [tag |-> "Ok", val |-> x]
Err(e) == [tag |-> "Err", err |-> e]
Panic == [tag |-> "Panic"]
IsOk(r) == r.tag = "Ok"
IsErr(r) == r.tag = "Err"
IsPanic(r) == r.tag = "Panic"

-----------------------------------------------------------------------------
(* Machine integers and serde_json::Number *)

I64_MAX == 2 ^ (IntBits - 1) - 1
I64_MIN == -(2 ^ (IntBits - 1))
I64 == I64_MIN .. I64_MAX

\* A JSON number is an integer that fits an i64, an unsigned integer above
\* i64::MAX, or a float.
Num(n) == [k |-> "i64", v |-> n]
NumU64Big == [k |-> "u64", v |-> 0]
NumF64 == [k |-> "f64", v |-> 0]
Numbers == {Num(n) : n \in I64} \cup {NumU64Big, NumF64}

\* Number::as_i64
as_i64(n) == IF n.k = "i64" THEN Some(n.v) ELSE None

\* `-x` on an i64: a panic with overflow checks, two's complement wrap-around
\* without them.
WrappingNeg(x) == IF x = I64_MIN THEN I64_MIN ELSE -x
Neg(x, checks) ==
    IF x = I64_MIN
    THEN (IF checks THEN None ELSE Some(WrappingNeg(x)))
    ELSE Some(-x)

-----------------------------------------------------------------------------
(* chrono: DateTime<Utc> and Duration *)

TicksPerSec == FracMax + 1

\* Duration::seconds accepts |s| <= i64::MAX / 1000 (its range is i64::MAX
\* milliseconds); the scaled model divides by 2.
DurationMaxSecs == I64_MAX \div 2

\* The seconds a DateTime<Utc> can hold; the span between two of them fits a
\* Duration.
TimestampMax == DurationMaxSecs \div 2
TimestampMin == -TimestampMax

DateTime(s, f) == [secs |-> s, frac |-> f]
DateTimes == {DateTime(s, f) : s \in TimestampMin .. TimestampMax, f \in 0 .. FracMax}

\* DateTime::timestamp: whole seconds since the epoch, rounded down
timestamp(t) == t.secs

\* Duration as chrono stores it: whole seconds rounded down, and a
\* non-negative sub-second part.
Dur(s, n) == [secs |-> s, nanos |-> n]

\* Duration::seconds: panics out of range
DurationSeconds(s) ==
    IF s >= -DurationMaxSecs /\ s <= DurationMaxSecs THEN Some(Dur(s, 0)) ELSE None

\* Duration::num_seconds and Duration::subsec_nanos: rounded towards zero
num_seconds(d) == IF d.secs < 0 /\ d.nanos > 0 THEN d.secs + 1 ELSE d.secs
subsec_nanos(d) == IF d.secs < 0 /\ d.nanos > 0 THEN d.nanos - TicksPerSec ELSE d.nanos

\* Utc.timestamp_opt(secs, 0): LocalResult::None out of range
timestamp_opt_unchecked(s) == Some(DateTime(s, 0))
timestamp_opt(s) ==
    IF s >= TimestampMin /\ s <= TimestampMax THEN Some(DateTime(s, 0)) ELSE None

\* DateTime - DateTime (signed_duration_since)
DateTimeSub(a, b) ==
    IF a.frac >= b.frac
    THEN Dur(a.secs - b.secs, a.frac - b.frac)
    ELSE Dur(a.secs - b.secs - 1, a.frac - b.frac + TicksPerSec)

-----------------------------------------------------------------------------
(* parse_duration (svc.rs:161-173) *)

\* An outcome of parse_duration: the pair it returns, or a panic.
Parsed(d, r) == [tag |-> "Ok", duration |-> d, is_running |-> r]

\* The running branch: now - Utc.timestamp_opt(-duration, 0).unwrap()
RunningDurationNotNegated(now, duration, checks) ==
    LET ts == timestamp_opt(duration) IN
    IF IsNone(ts) THEN Panic
    ELSE Parsed(DateTimeSub(now, Unwrap(ts)), TRUE)

RunningDurationFromNow(now, duration, checks) ==
    LET neg == Neg(duration, checks) IN
    IF IsNone(neg) THEN Panic
    ELSE LET ts == timestamp_opt(Unwrap(neg)) IN
         IF IsNone(ts) THEN Panic
         ELSE Parsed(DateTimeSub(now, Unwrap(ts)), TRUE)

\* The stopped branch: Duration::seconds(duration)
StoppedDuration(duration) ==
    LET d == DurationSeconds(duration) IN
    IF IsNone(d) THEN Panic ELSE Parsed(Unwrap(d), FALSE)

parse_duration_sign_blind(now, raw, checks) ==
    LET i == as_i64(raw) IN
    IF IsNone(i) THEN Panic
    ELSE IF Unwrap(i) <= 0
         THEN RunningDurationFromNow(now, Unwrap(i), checks)
         ELSE StoppedDuration(Unwrap(i))

parse_duration(now, raw, checks) ==
    LET i == as_i64(raw) IN
    IF IsNone(i) THEN Panic
    ELSE IF Unwrap(i) < 0
         THEN RunningDurationFromNow(now, Unwrap(i), checks)
         ELSE StoppedDuration(Unwrap(i))

-----------------------------------------------------------------------------
(* Wire types of the transport client (api.rs:112-149) *)

Workspaces == 1 .. NumWorkspaces
ProjectIds == {1, 2}
Keys == Workspaces \X ProjectIds

\* The (name, active) data the remote may hold for a project.
Versions == {[name |-> "Proj", active |-> TRUE], [name |-> "Renamed", active |-> FALSE]}

\* api::Project
RawProject(id, ver, ws) ==
    [active |-> ver.active, client_id |-> None, id |-> id, name |-> ver.name,
     workspace_id |-> ws]
RawProjects ==
    {RawProject(Num(i), v, Num(w)) : i \in ProjectIds, v \in Versions, w \in {1}}

RECURSIVE SeqsUpTo(_, _)
SeqsUpTo(S, n) ==
    IF n = 0 THEN {<<>>}
    ELSE LET shorter == SeqsUpTo(S, n - 1) IN
         shorter \cup {Append(q, x) : q \in {r \in shorter : Len(r) = n - 1}, x \in S}

\* A project list of the remote names each project once.
DistinctIds(q) == \A i, j \in 1 .. Len(q) : i /= j => q[i].id /= q[j].id
ProjectLists == {q \in SeqsUpTo(RawProjects, Cardinality(ProjectIds)) : DistinctIds(q)}

\* What a transport call yields: Err(reqwest::Error) or the decoded body.
ReqwestError == Err("Reqwest")
ChronoParseError == Err("ChronoParse")
FetchOutcomes == {ReqwestError} \cup {Ok(q) : q \in ProjectLists}

-----------------------------------------------------------------------------
(* The project cache (svc.rs:11, 96-140) *)

\* svc::Project built from an api::Project (svc.rs:107-111, 125-129)
ProjectOf(p) == [active |-> p.active, id |-> Unwrap(as_i64(p.id)), name |-> p.name]

EmptyCache == [k \in Keys |-> None]

\* FrozenMap::insert: the first value of a key stays, a later insert of the
\* key is dropped.
OverwritingInsert(cache, key, value) == [cache EXCEPT ![key] = Some(value)]
FrozenInsert(cache, key, value) ==
    IF IsSome(cache[key]) THEN cache ELSE [cache EXCEPT ![key] = Some(value)]

\* The insert loops of get_project and get_projects: every project of the
\* response goes in under (workspace_id, its own id); a project id that is no
\* i64 panics at that project, with the earlier ones inserted.
RECURSIVE InsertAllByField(_, _, _)
InsertAllByField(cache, workspace_id, projects) ==
    IF projects = <<>> THEN [cache |-> cache, panicked |-> FALSE]
    ELSE LET p == Head(projects) IN
         IF IsNone(as_i64(p.id)) \/ IsNone(as_i64(p.workspace_id))
         THEN [cache |-> cache, panicked |-> TRUE]
         ELSE InsertAllByField(FrozenInsert(cache,
                                            <<Unwrap(as_i64(p.workspace_id)),
                                              Unwrap(as_i64(p.id))>>,
                                            ProjectOf(p)),
                               workspace_id, Tail(projects))

RECURSIVE InsertAll(_, _, _)
InsertAll(cache, workspace_id, projects) ==
    IF projects = <<>> THEN [cache |-> cache, panicked |-> FALSE]
    ELSE LET p == Head(projects) IN
         IF IsNone(as_i64(p.id)) THEN [cache |-> cache, panicked |-> TRUE]
         ELSE InsertAll(FrozenInsert(cache, <<workspace_id, Unwrap(as_i64(p.id))>>,
                                     ProjectOf(p)),
                        workspace_id, Tail(projects))

\* A project fetch as the history records it.
Fetch(workspace_id, outcome) == [workspace_id |-> workspace_id, outcome |-> outcome]

\* Client::get_project: [result, cache, fetches]
\* get_project after its first lookup missed: the fetch, the inserts and the
\* second lookup (svc.rs:102-115)
FetchAndLookupOrFail(cache, workspace_id, project_id, outcome) ==
    IF IsErr(outcome)
    THEN [result |-> outcome, cache |-> cache,
          fetches |-> <<Fetch(workspace_id, outcome)>>]
    ELSE Only({[result |-> IF ins.panicked THEN Panic
                           ELSE IF IsNone(ins.cache[<<workspace_id, project_id>>])
                           THEN Err("NotFound")
                           ELSE Ok(ins.cache[<<workspace_id, project_id>>]),
                cache |-> ins.cache,
                fetches |-> <<Fetch(workspace_id, outcome)>>] :
               ins \in {InsertAll(cache, workspace_id, outcome.val)}})

FetchAndLookupRetrying(cache, workspace_id, project_id, outcome) ==
    IF IsErr(outcome)
    THEN [result |-> outcome, cache |-> cache,
          fetches |-> <<Fetch(workspace_id, outcome), Fetch(workspace_id, outcome)>>]
    ELSE Only({[result |-> IF ins.panicked THEN Panic
                           ELSE Ok(ins.cache[<<workspace_id, project_id>>]),
                cache |-> ins.cache,
                fetches |-> <<Fetch(workspace_id, outcome)>>] :
               ins \in {InsertAll(cache, workspace_id, outcome.val)}})

FetchAndLookupRequestedOnly(cache, workspace_id, project_id, outcome) ==
    IF IsErr(outcome)
    THEN [result |-> outcome, cache |-> cache,
          fetches |-> <<Fetch(workspace_id, outcome)>>]
    ELSE Only({[result |-> IF ins.panicked THEN Panic
                           ELSE Ok(ins.cache[<<workspace_id, project_id>>]),
                cache |-> ins.cache,
                fetches |-> <<Fetch(workspace_id, outcome)>>] :
               ins \in {InsertAll(cache, workspace_id,
                                  SelectSeq(outcome.val,
                                            LAMBDA p : p.id = Num(project_id)))}})

FetchAndLookup(cache, workspace_id, project_id, outcome) ==
    IF IsErr(outcome)
    THEN [result |-> outcome, cache |-> cache,
          fetches |-> <<Fetch(workspace_id, outcome)>>]
    ELSE Only({[result |-> IF ins.panicked THEN Panic
                           ELSE Ok(ins.cache[<<workspace_id, project_id>>]),
                cache |-> ins.cache,
                fetches |-> <<Fetch(workspace_id, outcome)>>] :
               ins \in {InsertAll(cache, workspace_id, outcome.val)}})

get_project_refetching(cache, workspace_id, project_id, outcome) ==
    FetchAndLookup(cache, workspace_id, project_id, outcome)

get_project_remembering_workspace(cache, workspace_id, project_id, outcome) ==
    LET key == <<workspace_id, project_id>> IN
    IF IsSome(cache[key])
    THEN [result |-> Ok(cache[key]), cache |-> cache, fetches |-> <<>>]
    ELSE IF \E p \in ProjectIds : IsSome(cache[<<workspace_id, p>>])
    THEN [result |-> Ok(None), cache |-> cache, fetches |-> <<>>]
    ELSE FetchAndLookup(cache, workspace_id, project_id, outcome)

get_project(cache, workspace_id, project_id, outcome) ==
    LET key == <<workspace_id, project_id>> IN
    IF IsSome(cache[key])
    THEN [result |-> Ok(cache[key]), cache |-> cache, fetches |-> <<>>]
    ELSE FetchAndLookup(cache, workspace_id, project_id, outcome)

\* The projects get_projects pushes, up to the first id that is no i64.
RECURSIVE PushedProjects(_)
PushedProjects(projects) ==
    IF projects = <<>> \/ IsNone(as_i64(Head(projects).id)) THEN <<>>
    ELSE <<ProjectOf(Head(projects))>> \o PushedProjects(Tail(projects))

\* Client::get_projects: [result, cache, fetches]
get_projects_from_cache(cache, workspace_id, outcome) ==
    IF IsErr(outcome)
    THEN [result |-> outcome, cache |-> cache,
          fetches |-> <<Fetch(workspace_id, outcome)>>]
    ELSE Only({[result |-> IF ins.panicked THEN Panic
                           ELSE Ok([i \in 1 .. Len(PushedProjects(outcome.val)) |->
                                      Unwrap(ins.cache[<<workspace_id,
                                                         PushedProjects(outcome.val)[i].id>>])]),
                cache |-> ins.cache,
                fetches |-> <<Fetch(workspace_id, outcome)>>] :
               ins \in {InsertAll(cache, workspace_id, outcome.val)}})

get_projects(cache, workspace_id, outcome) ==
    IF IsErr(outcome)
    THEN [result |-> outcome, cache |-> cache,
          fetches |-> <<Fetch(workspace_id, outcome)>>]
    ELSE Only({[result |-> IF ins.panicked THEN Panic
                           ELSE Ok(PushedProjects(outcome.val)),
                cache |-> ins.cache,
                fetches |-> <<Fetch(workspace_id, outcome)>>] :
               ins \in {InsertAll(cache, workspace_id, outcome.val)}})

-----------------------------------------------------------------------------
(* Time entries: api::TimeEntry, api::NewTimeEntry, svc::TimeEntry *)

\* An RFC 3339 string, by what parsing it yields: an instant, or a parse error.
Str(t) == [valid |-> TRUE, t |-> t]
Malformed == [valid |-> FALSE, t |-> DateTime(0, 0)]

\* DateTime::to_rfc3339, and str::parse::<DateTime<Utc>>
to_rfc3339(t) == Str(t)
parse_datetime(s) == IF s.valid THEN Ok(s.t) ELSE ChronoParseError

CREATED_WITH == "github.com/blachniet/tgl"

\* api::TimeEntry
RawEntry(description, duration, id, project_id, start, stop, workspace_id) ==
    [description |-> description, duration |-> duration, id |-> id,
     project_id |-> project_id, start |-> start, stop |-> stop,
     task_id |-> None, workspace_id |-> workspace_id]

\* The outcome of a build_time_entry call: [result, cache, fetches, clock]
Built(result, cache, fetches, clock) ==
    [result |-> result, cache |-> cache, fetches |-> fetches, clock |-> clock]

\* svc::TimeEntry (svc.rs:49-58)
TimeEntryRunningIfNoStop(api_entry, pd, project_id, project, workspace_id) ==
    [description |-> api_entry.description,
     duration |-> pd.duration,
     is_running |-> IsNone(api_entry.stop),
     project_id |-> project_id,
     project_name |-> IF IsSome(project) THEN Some(Unwrap(project).name) ELSE None,
     start |-> IF IsSome(api_entry.start)
               THEN Some(parse_datetime(Unwrap(api_entry.start)).val) ELSE None,
     stop |-> IF IsSome(api_entry.stop)
              THEN Some(parse_datetime(Unwrap(api_entry.stop)).val) ELSE None,
     workspace_id |-> workspace_id]

TimeEntryDefaultName(api_entry, pd, project_id, project, workspace_id) ==
    [description |-> api_entry.description,
     duration |-> pd.duration,
     is_running |-> pd.is_running,
     project_id |-> project_id,
     project_name |-> Some(IF IsSome(project) THEN Unwrap(project).name ELSE ""),
     start |-> IF IsSome(api_entry.start)
               THEN Some(parse_datetime(Unwrap(api_entry.start)).val) ELSE None,
     stop |-> IF IsSome(api_entry.stop)
              THEN Some(parse_datetime(Unwrap(api_entry.stop)).val) ELSE None,
     workspace_id |-> workspace_id]

TimeEntry(api_entry, pd, project_id, project, workspace_id) ==
    [description |-> api_entry.description,
     duration |-> pd.duration,
     is_running |-> pd.is_running,
     project_id |-> project_id,
     project_name |-> IF IsSome(project) THEN Some(Unwrap(project).name) ELSE None,
     start |-> IF IsSome(api_entry.start)
               THEN Some(parse_datetime(Unwrap(api_entry.start)).val) ELSE None,
     stop |-> IF IsSome(api_entry.stop)
              THEN Some(parse_datetime(Unwrap(api_entry.stop)).val) ELSE None,
     workspace_id |-> workspace_id]

\* build_time_entry from the clock reading on (svc.rs:39-58): gp is the
\* outcome of the project lookup, pd of parse_duration.
AssembleEntryLenient(api_entry, project_id, gp, pd, now) ==
    LET WellFormed(s) == IF IsSome(s) /\ IsErr(parse_datetime(Unwrap(s))) THEN None ELSE s
        lenient == [api_entry EXCEPT !.start = WellFormed(@), !.stop = WellFormed(@)]
    IN
    IF IsPanic(pd)
    THEN Built(Panic, gp.cache, gp.fetches, <<now>>)
    ELSE IF IsNone(as_i64(api_entry.workspace_id))
    THEN Built(Panic, gp.cache, gp.fetches, <<now>>)
    ELSE Built(Ok(TimeEntry(lenient, pd, project_id, gp.result.val,
                            Unwrap(as_i64(api_entry.workspace_id)))),
               gp.cache, gp.fetches, <<now>>)

AssembleEntry(api_entry, project_id, gp, pd, now) ==
    IF IsPanic(pd)
    THEN Built(Panic, gp.cache, gp.fetches, <<now>>)
    ELSE IF IsSome(api_entry.start) /\ IsErr(parse_datetime(Unwrap(api_entry.start)))
    THEN Built(ChronoParseError, gp.cache, gp.fetches, <<now>>)
    ELSE IF IsSome(api_entry.stop) /\ IsErr(parse_datetime(Unwrap(api_entry.stop)))
    THEN Built(ChronoParseError, gp.cache, gp.fetches, <<now>>)
    ELSE IF IsNone(as_i64(api_entry.workspace_id))
    THEN Built(Panic, gp.cache, gp.fetches, <<now>>)
    ELSE Built(Ok(TimeEntry(api_entry, pd, project_id, gp.result.val,
                            Unwrap(as_i64(api_entry.workspace_id)))),
               gp.cache, gp.fetches, <<now>>)

\* Client::build_time_entry.  `outcome` is what the transport answers if the
\* call fetches projects, `now` what get_now returns if the call reads the
\* clock.
build_time_entry(cache, api_entry, outcome, now, checks) ==
    LET pid_num == api_entry.project_id
        ws == as_i64(api_entry.workspace_id)
    IN
    IF IsSome(pid_num) /\ IsNone(as_i64(Unwrap(pid_num)))
    THEN Built(Panic, cache, <<>>, <<>>)
    ELSE IF IsSome(pid_num) /\ IsNone(ws)
    THEN Built(Panic, cache, <<>>, <<>>)
    ELSE Only({IF ~IsOk(gp.result)
               THEN Built(gp.result, gp.cache, gp.fetches, <<>>)
               ELSE AssembleEntry(api_entry,
                                  IF IsSome(pid_num) THEN as_i64(Unwrap(pid_num)) ELSE None,
                                  gp, pd, now) :
               gp \in {IF IsSome(pid_num)
                       THEN get_project(cache, Unwrap(ws), Unwrap(as_i64(Unwrap(pid_num))),
                                        outcome)
                       ELSE [result |-> Ok(None), cache |-> cache, fetches |-> <<>>]},
               pd \in {parse_duration(now, api_entry.duration, checks)}})

\* The outcome of assembling a listing: [built, cache, fetches, clock], built
\* holding the result of every build_time_entry call in order.
AllBuilt(b, rest) ==
    [built |-> <<b.result>> \o rest.built, cache |-> rest.cache,
     fetches |-> b.fetches \o rest.fetches, clock |-> b.clock \o rest.clock]
NoneBuilt(cache) == [built |-> <<>>, cache |-> cache, fetches |-> <<>>, clock |-> <<>>]

\* The lazy map-and-collect of get_latest_entries (svc.rs:25-28): entries are
\* assembled in order and the first one that fails ends the iteration.
RECURSIVE BuildEachEager(_, _, _, _, _)
BuildEachEager(cache, entries, outcomes, nows, checks) ==
    IF entries = <<>> THEN NoneBuilt(cache)
    ELSE Only({IF IsPanic(b.result) THEN AllBuilt(b, NoneBuilt(b.cache))
               ELSE Only({AllBuilt(b, rest) :
                          rest \in {BuildEachEager(b.cache, Tail(entries), Tail(outcomes),
                                                   Tail(nows), checks)}}) :
               b \in {build_time_entry(cache, Head(entries), Head(outcomes), Head(nows),
                                       checks)}})

RECURSIVE BuildEach(_, _, _, _, _)
BuildEach(cache, entries, outcomes, nows, checks) ==
    IF entries = <<>> THEN NoneBuilt(cache)
    ELSE Only({IF ~IsOk(b.result) THEN AllBuilt(b, NoneBuilt(b.cache))
               ELSE Only({AllBuilt(b, rest) :
                          rest \in {BuildEach(b.cache, Tail(entries), Tail(outcomes),
                                              Tail(nows), checks)}}) :
               b \in {build_time_entry(cache, Head(entries), Head(outcomes), Head(nows),
                                       checks)}})

\* collect::<Result<Vec<_>>>: the first failure, or every entry
RECURSIVE Collect(_)
Collect(built) ==
    IF built = <<>> THEN Ok(<<>>)
    ELSE IF ~IsOk(Head(built)) THEN Head(built)
    ELSE LET rest == Collect(Tail(built)) IN
         IF IsOk(rest) THEN Ok(<<Head(built).val>> \o rest.val) ELSE rest

\* Client::get_latest_entries: [result, cache, fetches, clock, built]
get_latest_entries(cache, entries_outcome, outcomes, nows, checks) ==
    IF IsErr(entries_outcome)
    THEN [result |-> entries_outcome, cache |-> cache, fetches |-> <<>>,
          clock |-> <<>>, built |-> <<>>]
    ELSE Only({[result |-> Collect(all.built), cache |-> all.cache,
                fetches |-> all.fetches, clock |-> all.clock, built |-> all.built] :
               all \in {BuildEach(cache, entries_outcome.val, outcomes, nows, checks)}})

\* The api::NewTimeEntry that start_time_entry submits (svc.rs:68-77)
NewTimeEntryNotNegated(workspace_id, project_id, description, now, checks) ==
    [created_with |-> CREATED_WITH,
     description |-> description,
     duration |-> Num(timestamp(now)),
     project_id |-> IF IsSome(project_id) THEN Some(Num(Unwrap(project_id))) ELSE None,
     start |-> to_rfc3339(now),
     stop |-> None,
     task_id |-> None,
     workspace_id |-> Num(workspace_id)]

NewTimeEntry(workspace_id, project_id, description, now, checks) ==
    [created_with |-> CREATED_WITH,
     description |-> description,
     duration |-> Num(Unwrap(Neg(timestamp(now), checks))),
     project_id |-> IF IsSome(project_id) THEN Some(Num(Unwrap(project_id))) ELSE None,
     start |-> to_rfc3339(now),
     stop |-> None,
     task_id |-> None,
     workspace_id |-> Num(workspace_id)]

\* Client::start_time_entry: [result, cache, fetches, clock, creates]
start_time_entry(cache, workspace_id, project_id, description, now, create_outcome, outcome, build_now, checks) ==
    LET request == NewTimeEntry(workspace_id, project_id, description, now, checks) IN
    IF IsErr(create_outcome)
    THEN [result |-> create_outcome, cache |-> cache, fetches |-> <<>>,
          clock |-> <<now>>, creates |-> <<request>>]
    ELSE Only({[result |-> b.result, cache |-> b.cache, fetches |-> b.fetches,
                clock |-> <<now>> \o b.clock, creates |-> <<request>>] :
               b \in {build_time_entry(cache, create_outcome.val, outcome, build_now,
                                       checks)}})

\* What the remote answers to GET /me/time_entries/current: a failure, the
\* JSON value null when no timer runs, or the running entry.
HttpFailure == [http |-> "failure", body |-> None]
JsonNull == [http |-> "ok", body |-> None]
JsonEntry(e) == [http |-> "ok", body |-> Some(e)]

\* api::Client::get_current_entry: the body is decoded as a TimeEntry, which
\* the JSON value null is not.
get_current_entry(response) ==
    IF response.http = "failure" THEN ReqwestError
    ELSE IF IsNone(response.body) THEN ReqwestError
    ELSE Ok(response.body)

\* A stop request as the history records it (api.rs:77-91)
StopRequest(workspace_id, time_entry_id) ==
    [workspace_id |-> workspace_id, time_entry_id |-> time_entry_id]

\* Client::stop_current_time_entry: [result, cache, fetches, clock, stops]
stop_current_time_entry_unstopped(cache, current, stop_outcome, outcome, now, checks) ==
    IF IsErr(current)
    THEN [result |-> current, cache |-> cache, fetches |-> <<>>, clock |-> <<>>,
          stops |-> <<>>]
    ELSE IF IsSome(current.val)
    THEN LET api_entry == Unwrap(current.val)
             stops == <<StopRequest(api_entry.workspace_id, api_entry.id)>>
         IN  IF IsErr(stop_outcome)
             THEN [result |-> stop_outcome, cache |-> cache, fetches |-> <<>>,
                   clock |-> <<>>, stops |-> stops]
             ELSE Only({[result |-> IF IsOk(b.result) THEN Ok(Some(b.result.val))
                                    ELSE b.result,
                         cache |-> b.cache, fetches |-> b.fetches, clock |-> b.clock,
                         stops |-> stops] :
                        b \in {build_time_entry(cache, api_entry, outcome, now, checks)}})
    ELSE [result |-> Ok(None), cache |-> cache, fetches |-> <<>>, clock |-> <<>>,
          stops |-> <<>>]

stop_current_time_entry(cache, current, stop_outcome, outcome, now, checks) ==
    IF IsErr(current)
    THEN [result |-> current, cache |-> cache, fetches |-> <<>>, clock |-> <<>>,
          stops |-> <<>>]
    ELSE IF IsSome(current.val)
    THEN LET api_entry == Unwrap(current.val)
             stops == <<StopRequest(api_entry.workspace_id, api_entry.id)>>
         IN  IF IsErr(stop_outcome)
             THEN [result |-> stop_outcome, cache |-> cache, fetches |-> <<>>,
                   clock |-> <<>>, stops |-> stops]
             ELSE Only({[result |-> IF IsOk(b.result) THEN Ok(Some(b.result.val))
                                    ELSE b.result,
                         cache |-> b.cache, fetches |-> b.fetches, clock |-> b.clock,
                         stops |-> stops] :
                        b \in {build_time_entry(cache, stop_outcome.val, outcome, now,
                                                checks)}})
    ELSE [result |-> Ok(None), cache |-> cache, fetches |-> <<>>, clock |-> <<>>,
          stops |-> <<>>]

-----------------------------------------------------------------------------
(* Inputs: what callers pass and what the remote answers *)

ClockReadings == {DateTime(10, 0), DateTime(12, FracMax)}
Descriptions == {None, Some("A")}

\* (duration, start, stop) of an entry of the remote: running; stopped; a
\* negative duration together with a stop; no timestamps; a start that does not
\* parse; a stop that does not parse.
EntryTimes ==
    { <<Num(-10), Some(Str(DateTime(10, 0))), None>>,
      <<Num(30), Some(Str(DateTime(10, 0))), Some(Str(DateTime(12, 0)))>>,
      <<Num(-10), Some(Str(DateTime(10, 0))), Some(Str(DateTime(12, 0)))>>,
      <<Num(30), None, None>>,
      <<Num(-10), Some(Malformed), None>>,
      <<Num(30), Some(Str(DateTime(10, 0))), Some(Malformed)>> }
RunningTimes == <<Num(-10), Some(Str(DateTime(10, 0))), None>>
BadStartTimes == <<Num(-10), Some(Malformed), None>>

EntryOf(t, id, project_id, workspace_id) ==
    RawEntry(Some("A"), t[1], Num(id), project_id, t[2], t[3], Num(workspace_id))

\* The entries of a time-entry listing.
BatchEntries ==
    {EntryOf(t, 1, k[2], k[1]) :
        t \in {RunningTimes, BadStartTimes},
        k \in {<<1, None>>, <<1, Some(Num(1))>>, <<1, Some(Num(2))>>,
               <<NumWorkspaces, Some(Num(1))>>}}
EntryLists == SeqsUpTo(BatchEntries, MaxBatch)

\* The entries a create or stop request answers with.
ResponseEntries ==
    {EntryOf(t, 1, p, w) :
        t \in EntryTimes, p \in {None, Some(Num(1))}, w \in Workspaces}

\* The entries the remote reports as running.
CurrentEntries == {EntryOf(RunningTimes, i, None, w) : i \in {1, 2}, w \in Workspaces}
CurrentResponses == {HttpFailure, JsonNull} \cup {JsonEntry(e) : e \in CurrentEntries}

\* What the facade's project fetches are answered with: project 1 under
\* either name, project 2 under one.
FacadeFetchOutcomes ==
    {ReqwestError} \cup
    {Ok(q) : q \in {r \in ProjectLists :
                       \A i \in 1 .. Len(r) : r[i].id = Num(1) \/ r[i].name = "Proj"}}

\* The answers to enumerate for the project fetch of an entry: a fetch can only
\* happen for an entry that names a project.
OutcomesFor(e) == IF IsSome(e.project_id) THEN FacadeFetchOutcomes ELSE {ReqwestError}

-----------------------------------------------------------------------------
(* State machine *)

NotCalled == [tag |-> "NotCalled"]

Idle ==
    [op |-> "none", workspace_id |-> 0, project_id |-> None, description |-> None,
     result |-> Ok(None), fetches |-> <<>>, clock |-> <<>>, creates |-> <<>>,
     stops |-> <<>>, built |-> <<>>, entries |-> <<>>, current |-> None]

\* first_reported after the project fetches of an operation
ProjectData(p) == [name |-> p.name, active |-> p.active]
RECURSIVE NoteProjects(_, _, _)
NoteProjects(fr, workspace_id, projects) ==
    IF projects = <<>> \/ IsNone(as_i64(Head(projects).id)) THEN fr
    ELSE LET key == <<workspace_id, Unwrap(as_i64(Head(projects).id))>> IN
         NoteProjects(IF IsSome(fr[key]) THEN fr
                      ELSE [fr EXCEPT ![key] = Some(ProjectData(Head(projects)))],
                      workspace_id, Tail(projects))
RECURSIVE NoteFetches(_, _)
NoteFetches(fr, fetches) ==
    IF fetches = <<>> THEN fr
    ELSE NoteFetches(IF IsOk(Head(fetches).outcome)
                     THEN NoteProjects(fr, Head(fetches).workspace_id,
                                       Head(fetches).outcome.val)
                     ELSE fr,
                     Tail(fetches))

InitClient ==
    /\ project_cache = EmptyCache
    /\ first_reported = [k \in Keys |-> None]
    /\ crashed = FALSE
    /\ last = Idle

InitCodecIdle ==
    /\ codec_now = DateTime(0, 0)
    /\ codec_raw = Num(0)
    /\ codec_out = NotCalled

\* No input of the facade operations below reaches i64::MIN, so the build
\* profile is immaterial to them; the codec harness explores both profiles.
Init ==
    /\ overflow_checks = TRUE
    /\ InitCodecIdle
    /\ InitClient

\* The effect of an operation with outcome r, recorded as `record`.
Finish(r, record) ==
    /\ project_cache' = r.cache
    /\ first_reported' = NoteFetches(first_reported, r.fetches)
    /\ crashed' = IsPanic(r.result)
    /\ last' = [record EXCEPT !.result = r.result, !.fetches = r.fetches]
    /\ UNCHANGED <<overflow_checks, codecVars>>

DoGetProjects(workspace_id, outcome) ==
    \E r \in {get_projects(project_cache, workspace_id, outcome)} :
        Finish(r, [Idle EXCEPT !.op = "get_projects", !.workspace_id = workspace_id])

DoGetProject(workspace_id, project_id, outcome) ==
    \E r \in {get_project(project_cache, workspace_id, project_id, outcome)} :
        Finish(r, [Idle EXCEPT !.op = "get_project", !.workspace_id = workspace_id,
                           !.project_id = Some(project_id)])

DoGetLatestEntries(entries_outcome, outcomes, now) ==
    \E r \in {get_latest_entries(project_cache, entries_outcome, outcomes,
                                  [i \in 1 .. MaxBatch |-> now], overflow_checks)} :
        Finish(r, [Idle EXCEPT !.op = "get_latest_entries", !.clock = r.clock,
                               !.built = r.built,
                               !.entries = <<entries_outcome>>])

DoStartTimeEntry(workspace_id, project_id, description, now, create_outcome, outcome, build_now) ==
    \E r \in {start_time_entry(project_cache, workspace_id, project_id, description,
                                now, create_outcome, outcome, build_now,
                                overflow_checks)} :
        Finish(r, [Idle EXCEPT !.op = "start_time_entry", !.workspace_id = workspace_id,
                               !.project_id = project_id, !.description = description,
                               !.clock = r.clock, !.creates = r.creates,
                               !.entries = <<create_outcome>>])

DoStopCurrentTimeEntry(response, stop_outcome, outcome, now) ==
    \E r \in {stop_current_time_entry(project_cache, get_current_entry(response),
                                       stop_outcome, outcome, now, overflow_checks)} :
        Finish(r, [Idle EXCEPT !.op = "stop_current_time_entry", !.clock = r.clock,
                               !.stops = r.stops, !.current = Some(response),
                               !.entries = IF r.stops = <<>> THEN <<>>
                                           ELSE <<stop_outcome>>])

\* Facade operations of a caller that takes each result before the next call.
GetProjects ==
    /\ ~crashed /\ last.op = "none"
    /\ \E w \in Workspaces, o \in FacadeFetchOutcomes : DoGetProjects(w, o)

GetProject ==
    /\ ~crashed /\ last.op = "none"
    /\ \E w \in Workspaces, p \in ProjectIds, o \in FacadeFetchOutcomes :
          DoGetProject(w, p, o)

GetLatestEntries ==
    /\ ~crashed /\ last.op = "none"
    /\ \E now \in {DateTime(12, FracMax)} :
          \/ DoGetLatestEntries(ReqwestError, <<>>, now)
          \/ \E es \in EntryLists :
                \E os \in [1 .. MaxBatch -> FacadeFetchOutcomes] :
                    /\ \A i \in 1 .. MaxBatch :
                          os[i] \in IF i <= Len(es) THEN OutcomesFor(es[i])
                                    ELSE {ReqwestError}
                    /\ DoGetLatestEntries(Ok(es), os, now)

StartTimeEntry ==
    /\ ~crashed /\ last.op = "none"
    /\ \E w \in Workspaces, p \in {None, Some(1)}, d \in Descriptions,
          now \in ClockReadings :
          \/ DoStartTimeEntry(w, p, d, now, ReqwestError, ReqwestError, now)
          \/ \E e \in {x \in ResponseEntries :
                          /\ x.workspace_id = Num(w)
                          /\ IsSome(x.project_id) = IsSome(p)} :
                \E o \in OutcomesFor(e), build_now \in ClockReadings :
                    /\ timestamp(build_now) >= timestamp(now)
                    /\ DoStartTimeEntry(w, p, d, now, Ok(e), o, build_now)

StopCurrentTimeEntry ==
    /\ ~crashed /\ last.op = "none"
    /\ \E response \in CurrentResponses :
          \/ /\ ~IsOk(get_current_entry(response))
             /\ DoStopCurrentTimeEntry(response, ReqwestError, ReqwestError,
                                       DateTime(0, 0))
          \/ /\ IsOk(get_current_entry(response))
             /\ \/ DoStopCurrentTimeEntry(response, ReqwestError, ReqwestError,
                                          DateTime(0, 0))
                \/ \E e \in ResponseEntries :
                      \E o \in OutcomesFor(e), now \in ClockReadings :
                          DoStopCurrentTimeEntry(response, Ok(e), o, now)

\* The caller takes the result.
Return ==
    /\ last.op /= "none"
    /\ ~crashed
    /\ last' = Idle
    /\ UNCHANGED <<overflow_checks, codecVars, project_cache, first_reported, crashed>>

Next ==
    \/ GetProjects
    \/ GetProject
    \/ GetLatestEntries
    \/ StartTimeEntry
    \/ StopCurrentTimeEntry
    \/ Return

Spec == Init /\ [][Next]_vars

\* The project resolver alone, call after call.
ListProjects ==
    /\ ~crashed
    /\ \E w \in Workspaces, o \in FetchOutcomes : DoGetProjects(w, o)

ResolveProject ==
    /\ ~crashed
    /\ \E w \in Workspaces, p \in ProjectIds, o \in FetchOutcomes : DoGetProject(w, p, o)

NextCache == ListProjects \/ ResolveProject

SpecCache == Init /\ [][NextCache]_vars

\* The duration codec alone, on every input.
InitCodec ==
    /\ overflow_checks \in BOOLEAN
    /\ codec_now \in DateTimes
    /\ codec_raw \in Numbers
    /\ codec_out = NotCalled
    /\ InitClient

ParseDuration ==
    /\ codec_out = NotCalled
    /\ codec_out' = parse_duration(codec_now, codec_raw, overflow_checks)
    /\ UNCHANGED <<overflow_checks, codec_now, codec_raw, clientVars>>

NextCodec == ParseDuration

SpecCodec == InitCodec /\ [][NextCodec]_vars

\* Numbers of the remote that no i64 holds, where the code reads an i64:
\* an entry's duration, project id or workspace id, a project's id, a
\* workspace's id.
UndecodableNumbers == {NumU64Big, NumF64}

UndecodableEntries ==
    {RawEntry(Some("A"), n, Num(1), None, Some(Str(DateTime(10, 0))), None, Num(1)) :
        n \in UndecodableNumbers}
    \cup {RawEntry(Some("A"), Num(-10), Num(1), Some(n), Some(Str(DateTime(10, 0))), None,
                   Num(1)) : n \in UndecodableNumbers}
    \cup {RawEntry(Some("A"), Num(-10), Num(1), p, Some(Str(DateTime(10, 0))), None, n) :
             n \in UndecodableNumbers, p \in {None, Some(Num(1))}}

UndecodableProjectLists ==
    {q \in SeqsUpTo(RawProjects \cup {RawProject(n, v, Num(1)) :
                                         n \in UndecodableNumbers, v \in Versions},
                    Cardinality(ProjectIds)) :
        DistinctIds(q) /\ \E i \in 1 .. Len(q) : IsNone(as_i64(q[i].id))}

\* api::Workspace, svc::Workspace
RawWorkspace(id, name) == [id |-> id, name |-> name]
WorkspaceLists ==
    SeqsUpTo({RawWorkspace(n, "W") : n \in {Num(1)} \cup UndecodableNumbers}, 2)

\* Client::get_workspaces: [result, cache, fetches]
get_workspaces(cache, outcome) ==
    [result |-> IF IsErr(outcome) THEN outcome
                ELSE IF \E i \in 1 .. Len(outcome.val) : IsNone(as_i64(outcome.val[i].id))
                THEN Panic
                ELSE Ok([i \in 1 .. Len(outcome.val) |->
                           [id |-> Unwrap(as_i64(outcome.val[i].id)),
                            name |-> outcome.val[i].name]]),
     cache |-> cache, fetches |-> <<>>]

DoGetWorkspaces(outcome) ==
    \E r \in {get_workspaces(project_cache, outcome)} :
        Finish(r, [Idle EXCEPT !.op = "get_workspaces", !.entries = <<outcome>>])

\* The facade against a remote that sends such numbers.
DecodeWorkspaces ==
    /\ ~crashed /\ last.op = "none"
    /\ \E q \in WorkspaceLists : DoGetWorkspaces(Ok(q))

DecodeProjects ==
    /\ ~crashed /\ last.op = "none"
    /\ \E w \in Workspaces, q \in UndecodableProjectLists : DoGetProjects(w, Ok(q))

DecodeProject ==
    /\ ~crashed /\ last.op = "none"
    /\ \E w \in Workspaces, p \in ProjectIds, q \in UndecodableProjectLists :
          DoGetProject(w, p, Ok(q))

DecodeLatestEntries ==
    /\ ~crashed /\ last.op = "none"
    /\ \E es \in SeqsUpTo(UndecodableEntries \cup {EntryOf(RunningTimes, 1, None, 1)},
                          MaxBatch) :
          DoGetLatestEntries(Ok(es), [i \in 1 .. MaxBatch |-> Ok(<<>>)],
                             DateTime(12, FracMax))

DecodeStartTimeEntry ==
    /\ ~crashed /\ last.op = "none"
    /\ \E e \in UndecodableEntries, now \in ClockReadings :
          DoStartTimeEntry(1, None, None, now, Ok(e), Ok(<<>>), now)

DecodeStopCurrentTimeEntry ==
    /\ ~crashed /\ last.op = "none"
    /\ \E c \in CurrentEntries, e \in UndecodableEntries, now \in ClockReadings :
          DoStopCurrentTimeEntry(JsonEntry(c), Ok(e), Ok(<<>>), now)

NextDecode ==
    \/ DecodeWorkspaces
    \/ DecodeProjects
    \/ DecodeProject
    \/ DecodeLatestEntries
    \/ DecodeStartTimeEntry
    \/ DecodeStopCurrentTimeEntry
    \/ Return

SpecDecode == Init /\ [][NextDecode]_vars

-----------------------------------------------------------------------------
(* Helpers of the properties *)

\* A step that performs the facade operation `op`.
Performs(op) == last'.op = op /\ vars' /= vars

\* The (name, active) of a cached or returned svc::Project.
DataOf(project) == [name |-> project.name, active |-> project.active]

\* A duration in sub-second ticks, and an instant in ticks since the epoch.
DurTicks(d) == d.secs * TicksPerSec + d.nanos
InstantTicks(t) == t.secs * TicksPerSec + t.frac

\* The successful project fetches of an operation for a workspace.
OkFetches(rec, w) ==
    {i \in 1 .. Len(rec.fetches) :
        rec.fetches[i].workspace_id = w /\ IsOk(rec.fetches[i].outcome)}

\* Project list q names project id p at position i.
Names(q, i, p) == q[i].id = Num(p)

-----------------------------------------------------------------------------
(* C1 *)

\* C1: the project cache is write-once per key.  In every step of every
\* sequence of get_projects, get_project and entry-assembling operations, a
\* key that holds a value keeps that very value (id, name, active): it is
\* neither removed nor overwritten, whatever the later fetch reports.
C1_WriteOnce ==
    [][\A k \in Keys :
          IsSome(project_cache[k]) => project_cache'[k] = project_cache[k]]_vars

\* A fetch of workspace k[1] has just reported project k[2] under another name
\* than the cached one, or not at all, and the key still holds the old value.
C1_Witness ==
    \E k \in Keys :
        /\ IsSome(project_cache[k])
        /\ project_cache[k] = Some([active |-> TRUE, id |-> k[2], name |-> "Proj"])
        /\ \E i \in OkFetches(last, k[1]) :
              LET q == last.fetches[i].outcome.val IN
              \/ \E j \in 1 .. Len(q) : Names(q, j, k[2]) /\ q[j].name = "Renamed"
              \/ /\ \A j \in 1 .. Len(q) : ~Names(q, j, k[2])
                 /\ last.op = "get_projects"

-----------------------------------------------------------------------------
(* C2 *)

\* C2: once an operation has returned after a successful project fetch of
\* workspace W whose response held project P (first_reported[W, P] is set),
\* every later get_project(W, P) returns a project and issues no project
\* fetch; an entry of a create or stop response that names (W, P) is likewise
\* assembled with the project's name and without a fetch.
C2_CachedAfterFetch ==
    [][\A k \in Keys :
          IsSome(first_reported[k]) =>
             /\ (Performs("get_project") /\ last'.workspace_id = k[1]
                    /\ last'.project_id = Some(k[2]))
                 => /\ IsOk(last'.result)
                    /\ IsSome(last'.result.val)
                    /\ Unwrap(last'.result.val).id = k[2]
                    /\ last'.fetches = <<>>
             /\ ((Performs("start_time_entry") \/ Performs("stop_current_time_entry"))
                    /\ last'.entries /= <<>> /\ IsOk(last'.entries[1])
                    /\ last'.entries[1].val.workspace_id = Num(k[1])
                    /\ last'.entries[1].val.project_id = Some(Num(k[2])))
                 => /\ last'.fetches = <<>>
                    /\ IsOk(last'.result) =>
                          (IF last'.op = "start_time_entry" THEN last'.result.val
                           ELSE Unwrap(last'.result.val)).project_name /= None]_vars

\* get_project has answered from the cache for a key an earlier fetch reported.
C2_Witness ==
    /\ last.op = "get_project"
    /\ last.fetches = <<>>
    /\ IsOk(last.result) /\ IsSome(last.result.val)
    /\ IsSome(first_reported[<<last.workspace_id, Unwrap(last.project_id)>>])

-----------------------------------------------------------------------------
(* C3 *)

CodecCalled == codec_out /= NotCalled

\* C3 as stated: for every non-negative integer raw duration and every now,
\* parse_duration returns exactly that many whole seconds, not running.
C3_EveryNonNegative ==
    (CodecCalled /\ (codec_raw.k = "u64" \/ (codec_raw.k = "i64" /\ codec_raw.v >= 0)))
    => /\ IsOk(codec_out)
       /\ ~codec_out.is_running
       /\ codec_raw.k = "i64"
       /\ num_seconds(codec_out.duration) = codec_raw.v
       /\ subsec_nanos(codec_out.duration) = 0

\* C3, amended: for every raw duration v that is an i64 with
\* 0 <= v <= the largest second count Duration::seconds accepts, and every
\* now, parse_duration returns exactly v whole seconds, not running, whatever
\* now is.
C3_NonNegativeInRange ==
    (CodecCalled /\ codec_raw.k = "i64" /\ codec_raw.v >= 0
        /\ codec_raw.v <= DurationMaxSecs)
    => /\ IsOk(codec_out)
       /\ ~codec_out.is_running
       /\ num_seconds(codec_out.duration) = codec_raw.v
       /\ subsec_nanos(codec_out.duration) = 0

\* The call of the unit test parse_duration_stopped, at an instant with a
\* sub-second part, and a call on zero.
C3_Witness ==
    /\ CodecCalled
    /\ codec_raw \in {Num(30), Num(0)}
    /\ codec_now.frac > 0
    /\ IsOk(codec_out) /\ ~codec_out.is_running

-----------------------------------------------------------------------------
(* C4 *)

\* The outcome is running, with the duration from epoch second e to now.
RunningSince(out, now, e) ==
    /\ IsOk(out)
    /\ out.is_running
    /\ out.duration.nanos \in 0 .. FracMax
    /\ DurTicks(out.duration) = InstantTicks(now) - e * TicksPerSec
    /\ (now.frac = 0 /\ now.secs = e + 30)
          => (num_seconds(out.duration) = 30 /\ subsec_nanos(out.duration) = 0)

\* C4 as stated: for every negative raw duration v and every now,
\* parse_duration returns running with the duration now - epoch(-v).
C4_EveryNegative ==
    (CodecCalled /\ codec_raw.k = "i64" /\ codec_raw.v < 0)
    => RunningSince(codec_out, codec_now, -codec_raw.v)

\* C4, amended: for every negative raw duration v whose epoch second -v is an
\* instant DateTime<Utc> can hold, and every now, parse_duration returns
\* running with the duration now - epoch(-v); for an epoch second e > 0 and
\* now = e + 30 s that is 30 s with no sub-second part.
C4_NegativeInRange ==
    (CodecCalled /\ codec_raw.k = "i64" /\ codec_raw.v < 0
        /\ codec_raw.v > I64_MIN /\ -codec_raw.v <= TimestampMax)
    => RunningSince(codec_out, codec_now, -codec_raw.v)

\* The call of the unit test parse_duration_running: now is 30 s after the
\* encoded start.
C4_Witness ==
    /\ CodecCalled
    /\ codec_raw.k = "i64" /\ codec_raw.v < 0
    /\ codec_now = DateTime(-codec_raw.v + 30, 0)
    /\ IsOk(codec_out) /\ codec_out.is_running
    /\ num_seconds(codec_out.duration) = 30

-----------------------------------------------------------------------------
(* C5 *)

\* The time entries the last operation assembled: each with the raw entry it
\* was built from and the clock reading of that build_time_entry call.
Produced(rec) ==
    IF rec.op = "start_time_entry" /\ IsOk(rec.result)
    THEN {[raw |-> rec.entries[1].val, entry |-> rec.result.val, now |-> rec.clock[2]]}
    ELSE IF rec.op = "stop_current_time_entry" /\ IsOk(rec.result)
            /\ IsSome(rec.result.val)
    THEN {[raw |-> rec.entries[1].val, entry |-> Unwrap(rec.result.val),
           now |-> rec.clock[1]]}
    ELSE IF rec.op = "get_latest_entries"
    THEN {[raw |-> rec.entries[1].val[i], entry |-> rec.built[i].val,
           now |-> rec.clock[i]] :
             i \in {j \in 1 .. Len(rec.built) : IsOk(rec.built[j])}}
    ELSE {}

\* The entry's duration is now minus the start instant the raw duration encodes.
ComputedFromNow(x) ==
    /\ x.raw.duration.v < 0
    /\ DurTicks(x.entry.duration) = InstantTicks(x.now) + x.raw.duration.v * TicksPerSec

\* The entry's duration is the raw duration, in whole seconds.
TakenVerbatim(x) ==
    /\ num_seconds(x.entry.duration) = x.raw.duration.v
    /\ subsec_nanos(x.entry.duration) = 0

\* C5 as stated: every assembled TimeEntry is running iff its stop is absent
\* and its duration was computed as now minus start, not taken verbatim.
C5_RunningIffNoStop ==
    \A x \in Produced(last) :
        x.entry.is_running <=> (IsNone(x.entry.stop) /\ ComputedFromNow(x))

\* C5, amended: every assembled TimeEntry is running iff its raw duration is
\* negative, and then its duration was computed as now minus the encoded
\* start; otherwise the duration is the raw one.  Its stop is absent iff the
\* raw entry has no stop, whether it is running or not.
C5_RunningIffComputed ==
    \A x \in Produced(last) :
        /\ x.entry.is_running <=> x.raw.duration.v < 0
        /\ x.entry.is_running => ComputedFromNow(x)
        /\ ~x.entry.is_running => TakenVerbatim(x)
        /\ IsNone(x.entry.stop) <=> IsNone(x.raw.stop)

\* A listing, a start and a stop have each assembled an entry; this one is a
\* running entry that carries a stop.
C5_Witness ==
    \E x \in Produced(last) :
        /\ x.entry.is_running
        /\ IsSome(x.entry.stop)
        /\ DurTicks(x.entry.duration) > 0

-----------------------------------------------------------------------------
(* C6 *)

\* C6: when the remote reports no running entry, stop_current_time_entry
\* returns Ok(None) and issues no stop request.
C6_AbsentWhenNothingRuns ==
    (last.op = "stop_current_time_entry" /\ last.current = Some(JsonNull))
    => /\ IsOk(last.result)
       /\ last.result.val = None
       /\ last.stops = <<>>

-----------------------------------------------------------------------------
(* C7 *)

\* C7: get_project returns Ok(None) whenever the key is not cached and the
\* project fetch of the workspace succeeds with a list that does not hold the
\* id.
C7_AbsentIsOk ==
    [][\A k \in Keys :
          (/\ Performs("get_project")
           /\ last'.workspace_id = k[1] /\ last'.project_id = Some(k[2])
           /\ IsNone(project_cache[k])
           /\ last'.fetches /= <<>>
           /\ IsOk(last'.fetches[1].outcome)
           /\ \A i \in 1 .. Len(last'.fetches[1].outcome.val) :
                 ~Names(last'.fetches[1].outcome.val, i, k[2]))
          => /\ IsOk(last'.result)
             /\ last'.result.val = None]_vars

\* get_project has fetched a non-empty list without the id it was asked for.
C7_Witness ==
    /\ last.op = "get_project"
    /\ Len(last.fetches) = 1
    /\ IsOk(last.fetches[1].outcome)
    /\ last.fetches[1].outcome.val /= <<>>
    /\ \A i \in 1 .. Len(last.fetches[1].outcome.val) :
          ~Names(last.fetches[1].outcome.val, i, Unwrap(last.project_id))
    /\ IsOk(last.result) /\ last.result.val = None

-----------------------------------------------------------------------------
(* C8 *)

\* The latest successful fetch of workspace w among those of operation rec
\* holds project p with the data d.
LatestReports(rec, w, p, d) ==
    /\ OkFetches(rec, w) /= {}
    /\ LET i == CHOOSE j \in OkFetches(rec, w) : \A n \in OkFetches(rec, w) : n <= j
           q == rec.fetches[i].outcome.val
       IN  \E j \in 1 .. Len(q) : Names(q, j, p) /\ ProjectData(q[j]) = d

\* C8 as stated: what get_project(W, P) returns has the name and active flag
\* that the most recent successful project fetch of W reported for P (here:
\* the fetch of the call itself, or else that of the call before it).
C8_NeverStale ==
    [][\A k \in Keys : \A v \in Versions :
          (/\ Performs("get_project")
           /\ last'.workspace_id = k[1] /\ last'.project_id = Some(k[2])
           /\ IsOk(last'.result) /\ IsSome(last'.result.val)
           /\ \/ LatestReports(last', k[1], k[2], v)
              \/ /\ OkFetches(last', k[1]) = {}
                 /\ LatestReports(last, k[1], k[2], v))
          => DataOf(Unwrap(last'.result.val)) = v]_vars

\* C8, amended: what get_project(W, P) returns has the id P and the name and
\* active flag that the first successful project fetch of W that held P
\* reported for it; later fetches of W may report other data for P.
C8_FirstReported ==
    [][\A k \in Keys :
          (/\ Performs("get_project")
           /\ last'.workspace_id = k[1] /\ last'.project_id = Some(k[2])
           /\ IsOk(last'.result) /\ IsSome(last'.result.val))
          => /\ first_reported'[k] = Some(DataOf(Unwrap(last'.result.val)))
             /\ Unwrap(last'.result.val).id = k[2]
             /\ IsSome(first_reported[k]) => first_reported'[k] = first_reported[k]]_vars

\* get_project has answered from the cache, without a fetch, with the data
\* the first fetch that held the project reported.
C8_Witness ==
    /\ last.op = "get_project"
    /\ last.fetches = <<>>
    /\ IsOk(last.result) /\ IsSome(last.result.val)
    /\ first_reported[<<last.workspace_id, Unwrap(last.project_id)>>]
          = Some(DataOf(Unwrap(last.result.val)))

-----------------------------------------------------------------------------
(* C9 *)

\* C9: every get_projects(W) call issues exactly one project fetch, of W,
\* whatever the cache holds; when the fetch succeeds the call returns exactly
\* the projects of the response, in the order of the response, and every
\* project id of the response is then a key (W, id) of the cache.
C9_ListIsFresh ==
    last.op = "get_projects" =>
        /\ Len(last.fetches) = 1
        /\ last.fetches[1].workspace_id = last.workspace_id
        /\ IsErr(last.fetches[1].outcome) => last.result = last.fetches[1].outcome
        /\ IsOk(last.fetches[1].outcome) =>
              LET q == last.fetches[1].outcome.val IN
              /\ IsOk(last.result)
              /\ Len(last.result.val) = Len(q)
              /\ \A i \in 1 .. Len(q) :
                    /\ Num(last.result.val[i].id) = q[i].id
                    /\ last.result.val[i].name = q[i].name
                    /\ last.result.val[i].active = q[i].active
                    /\ IsSome(project_cache[<<last.workspace_id, last.result.val[i].id>>])

\* get_projects has returned two projects, one of them with another name than
\* the cache holds for it.
C9_Witness ==
    /\ last.op = "get_projects"
    /\ IsOk(last.result)
    /\ Len(last.result.val) = 2
    /\ \E i \in 1 .. 2 :
          DataOf(Unwrap(project_cache[<<last.workspace_id, last.result.val[i].id>>]))
             /= DataOf(last.result.val[i])

-----------------------------------------------------------------------------
(* C10 *)

\* The position of the first entry of the listing whose assembly failed.
FirstFailure(rec) ==
    CHOOSE i \in 1 .. Len(rec.built) :
        /\ ~IsOk(rec.built[i])
        /\ \A j \in 1 .. (i - 1) : IsOk(rec.built[j])

\* C10: get_latest_entries is fail-fast.  If assembling the i-th raw entry
\* fails, the operation returns that failure, the entries after i are not
\* assembled, and no clock reading or project fetch happens on their behalf.
C10_FailFast ==
    (/\ last.op = "get_latest_entries"
     /\ \E i \in 1 .. Len(last.built) : ~IsOk(last.built[i]))
    => LET i == FirstFailure(last)
           es == last.entries[1].val
       IN  /\ last.result = last.built[i]
           /\ Len(last.built) = i
           /\ Len(last.clock) <= i
           /\ Len(last.fetches)
                 <= Cardinality({j \in 1 .. i : IsSome(es[j].project_id)})

\* A listing of two entries whose first entry failed; the second names a
\* project the cache does not hold, which was not fetched.
C10_Witness ==
    /\ last.op = "get_latest_entries"
    /\ IsOk(last.entries[1])
    /\ Len(last.entries[1].val) = 2
    /\ Len(last.built) = 1
    /\ IsErr(last.result)
    /\ LET e == last.entries[1].val[2] IN
       /\ IsSome(e.project_id)
       /\ IsNone(project_cache[<<e.workspace_id.v, Unwrap(e.project_id).v>>])

-----------------------------------------------------------------------------
(* C11 *)

\* The raw entry the last operation assembled first.
FirstRaw(rec) ==
    IF rec.op \in {"start_time_entry", "stop_current_time_entry"}
       /\ rec.entries /= <<>> /\ IsOk(rec.entries[1])
    THEN {rec.entries[1].val}
    ELSE IF rec.op = "get_latest_entries" /\ IsOk(rec.entries[1])
            /\ rec.entries[1].val /= <<>>
    THEN {rec.entries[1].val[1]}
    ELSE {}

\* Assembling e comes to read a number that no i64 holds, before anything
\* else can fail: its project id; its workspace id for the project lookup;
\* its duration; its workspace id for the result.
ReadsUndecodable(e) ==
    \/ IsSome(e.project_id) /\ IsNone(as_i64(Unwrap(e.project_id)))
    \/ IsSome(e.project_id) /\ IsNone(as_i64(e.workspace_id))
    \/ IsNone(e.project_id) /\ IsNone(as_i64(e.duration))
    \/ /\ IsNone(e.project_id) /\ IsSome(as_i64(e.duration))
       /\ IsSome(e.start) => IsOk(parse_datetime(Unwrap(e.start)))
       /\ IsSome(e.stop) => IsOk(parse_datetime(Unwrap(e.stop)))
       /\ e.duration.v \in (-TimestampMax) .. DurationMaxSecs
       /\ IsNone(as_i64(e.workspace_id))

\* The last operation came to read a number that no i64 holds.
MetUndecodable(rec) ==
    \/ \E e \in FirstRaw(rec) : ReadsUndecodable(e)
    \/ /\ rec.op \in {"get_projects", "get_project"}
       /\ rec.fetches /= <<>> /\ IsOk(rec.fetches[1].outcome)
       /\ \E i \in 1 .. Len(rec.fetches[1].outcome.val) :
             IsNone(as_i64(rec.fetches[1].outcome.val[i].id))
    \/ /\ rec.op = "get_workspaces" /\ IsOk(rec.entries[1])
       /\ \E i \in 1 .. Len(rec.entries[1].val) :
             IsNone(as_i64(rec.entries[1].val[i].id))

\* C11: an operation that meets a duration or identifier which is no 64-bit
\* integer returns an error to its caller and does not terminate abnormally.
C11_DecodeErrorReturned ==
    MetUndecodable(last) => (IsErr(last.result) /\ ~crashed)

-----------------------------------------------------------------------------
(* C12 *)

\* In the operation recorded as rec, a project fetch that failed was the last
\* transport call of the operation and its error is the operation's result.
FailedFetchEnds(rec) ==
    \A i \in 1 .. Len(rec.fetches) :
        IsErr(rec.fetches[i].outcome) =>
            /\ i = Len(rec.fetches)
            /\ rec.result = rec.fetches[i].outcome

\* C12: a transport failure of an outbound call is the operation's result
\* after one attempt of that call, with no further call; a failed project
\* fetch inside get_project or get_projects leaves the cache as it was.
C12_FailureOnceUnchanged ==
    [][(vars' /= vars /\ last'.op /= "none") =>
          /\ FailedFetchEnds(last')
          /\ (/\ last'.op \in {"get_project", "get_projects"}
              /\ last'.fetches /= <<>>
              /\ IsErr(last'.fetches[1].outcome))
             => /\ project_cache' = project_cache
                /\ Len(last'.fetches) = 1
          /\ (/\ last'.op = "get_latest_entries"
              /\ IsErr(last'.entries[1]))
             => /\ last'.result = last'.entries[1]
                /\ last'.fetches = <<>> /\ last'.built = <<>>
                /\ project_cache' = project_cache
          /\ (/\ last'.op = "start_time_entry"
              /\ IsErr(last'.entries[1]))
             => /\ last'.result = last'.entries[1]
                /\ Len(last'.creates) = 1 /\ last'.fetches = <<>>
                /\ project_cache' = project_cache
          /\ (/\ last'.op = "stop_current_time_entry"
              /\ last'.current = Some(HttpFailure))
             => /\ last'.result = ReqwestError
                /\ last'.stops = <<>> /\ last'.fetches = <<>>
          /\ (/\ last'.op = "stop_current_time_entry"
              /\ last'.entries /= <<>>
              /\ IsErr(last'.entries[1]))
             => /\ last'.result = last'.entries[1]
                /\ Len(last'.stops) = 1 /\ last'.fetches = <<>>]_vars

\* get_project has returned the error of its one failed fetch while the cache
\* holds projects, none of them under the key it was asked for.
C12_Witness ==
    /\ last.op = "get_project"
    /\ last.fetches = <<Fetch(last.workspace_id, ReqwestError)>>
    /\ last.result = ReqwestError
    /\ IsNone(project_cache[<<last.workspace_id, Unwrap(last.project_id)>>])
    /\ \E k \in Keys : IsSome(project_cache[k])

-----------------------------------------------------------------------------
(* C13 *)

\* The raw entries the last operation called build_time_entry on, each with
\* what the call returned.
Attempted(rec) ==
    IF rec.op = "get_latest_entries"
    THEN {[raw |-> rec.entries[1].val[i], result |-> rec.built[i]] :
             i \in 1 .. Len(rec.built)}
    ELSE IF rec.op \in {"start_time_entry", "stop_current_time_entry"}
            /\ rec.entries /= <<>> /\ IsOk(rec.entries[1])
    THEN {[raw |-> rec.entries[1].val, result |-> rec.result]}
    ELSE {}

\* The start or the stop of the raw entry is present and does not parse.
BadTimestamp(e) ==
    \/ IsSome(e.start) /\ IsErr(parse_datetime(Unwrap(e.start)))
    \/ IsSome(e.stop) /\ IsErr(parse_datetime(Unwrap(e.stop)))

\* The project fetch made for the entry assembled last has failed.
LookupFailed(rec) ==
    rec.fetches /= <<>> /\ IsErr(rec.fetches[Len(rec.fetches)].outcome)

\* C13 as stated: in list, start and stop operations alike, assembling a raw
\* entry whose start or stop is present but malformed returns the timestamp
\* parse error and no TimeEntry.
C13_MalformedIsParseError ==
    \A x \in Attempted(last) :
        BadTimestamp(x.raw) => x.result = ChronoParseError

\* C13, amended: assembling such an entry never yields a TimeEntry; it
\* returns the timestamp parse error unless the project lookup of the entry,
\* which comes first, has failed, and then it returns that transport error.
C13_MalformedNeverAssembled ==
    \A x \in Attempted(last) :
        BadTimestamp(x.raw) =>
            /\ ~IsOk(x.result)
            /\ ~LookupFailed(last) => x.result = ChronoParseError
            /\ x.result /= ChronoParseError
                  => /\ IsSome(x.raw.project_id)
                     /\ LookupFailed(last)
                     /\ x.result = last.fetches[Len(last.fetches)].outcome

\* A stop operation whose stop response has a malformed stop string has
\* returned the parse error after a successful project lookup.
C13_Witness ==
    /\ last.op = "stop_current_time_entry"
    /\ \E x \in Attempted(last) :
          /\ IsSome(x.raw.stop) /\ IsErr(parse_datetime(Unwrap(x.raw.stop)))
          /\ IsSome(x.raw.project_id)
          /\ x.result = ChronoParseError
    /\ last.fetches /= <<>>
    /\ ~LookupFailed(last)

-----------------------------------------------------------------------------
(* C14 *)

\* C14: a raw entry without a project id assembles to a TimeEntry whose
\* project_id and project_name are absent, whatever the cache holds.
C14_NoProjectNoName ==
    \A x \in Produced(last) :
        IsNone(x.raw.project_id) =>
            /\ x.entry.project_id = None
            /\ x.entry.project_name = None

\* An entry without a project id was assembled while the cache holds a
\* project of the entry's workspace.
C14_Witness ==
    \E x \in Produced(last) :
        /\ IsNone(x.raw.project_id)
        /\ x.entry.project_name = None
        /\ \E p \in ProjectIds : IsSome(project_cache[<<x.entry.workspace_id, p>>])

-----------------------------------------------------------------------------
(* C15 *)

\* The TimeEntry carries what the raw entry holds.
AssembledFrom(entry, raw) ==
    /\ entry.description = raw.description
    /\ Num(entry.workspace_id) = raw.workspace_id
    /\ entry.project_id = (IF IsSome(raw.project_id)
                           THEN as_i64(Unwrap(raw.project_id)) ELSE None)
    /\ IsNone(raw.start) => entry.start = None
    /\ IsSome(raw.start) =>
          /\ IsOk(parse_datetime(Unwrap(raw.start)))
          /\ entry.start = Some(parse_datetime(Unwrap(raw.start)).val)
    /\ IsNone(raw.stop) => entry.stop = None
    /\ IsSome(raw.stop) =>
          /\ IsOk(parse_datetime(Unwrap(raw.stop)))
          /\ entry.stop = Some(parse_datetime(Unwrap(raw.stop)).val)
    /\ entry.is_running = (raw.duration.v < 0)

\* C15: start_time_entry submits exactly one create request; its duration is
\* the negated epoch second of a clock reading, its start is that reading,
\* it carries the caller's workspace id, project id and description and no
\* stop or task id; a TimeEntry it returns is assembled from the response.
C15_CreateRequest ==
    last.op = "start_time_entry" =>
        /\ Len(last.creates) = 1
        /\ last.clock /= <<>>
        /\ LET request == last.creates[1]
               now == last.clock[1]
           IN  /\ request.duration = Num(-timestamp(now))
               /\ request.start = to_rfc3339(now)
               /\ request.workspace_id = Num(last.workspace_id)
               /\ request.project_id = (IF IsSome(last.project_id)
                                        THEN Some(Num(Unwrap(last.project_id)))
                                        ELSE None)
               /\ request.description = last.description
               /\ request.stop = None
               /\ request.task_id = None
               /\ request.created_with = CREATED_WITH
        /\ IsOk(last.result) =>
              /\ IsOk(last.entries[1])
              /\ AssembledFrom(last.result.val, last.entries[1].val)

\* A start without a description, read at second 12, has returned the entry
\* of the response, which has a description and started at second 10.
C15_Witness ==
    /\ last.op = "start_time_entry"
    /\ last.description = None
    /\ last.clock[1] = DateTime(12, FracMax)
    /\ last.creates[1].duration = Num(-12)
    /\ IsOk(last.result)
    /\ last.result.val.description = Some("A")
    /\ last.result.val.start = Some(DateTime(10, 0))

-----------------------------------------------------------------------------
(* C17 *)

\* C17: a get_project(W, id) call that misses the cache issues exactly one
\* project fetch, for W; when it succeeds, every project of the response is
\* cached under (W, its own id) when the call returns, and the result is what
\* the cache then holds under (W, id).
C17_MissCachesAll ==
    [][\A k \in Keys :
          (/\ Performs("get_project")
           /\ last'.workspace_id = k[1] /\ last'.project_id = Some(k[2])
           /\ IsNone(project_cache[k]))
          => /\ Len(last'.fetches) = 1
             /\ last'.fetches[1].workspace_id = k[1]
             /\ IsOk(last'.fetches[1].outcome) =>
                   LET q == last'.fetches[1].outcome.val IN
                   /\ \A i \in 1 .. Len(q) :
                         /\ IsSome(project_cache'[<<k[1], q[i].id.v>>])
                         /\ Unwrap(project_cache'[<<k[1], q[i].id.v>>]).id = q[i].id.v
                   /\ last'.result = Ok(project_cache'[k])]_vars

\* A get_project call has missed, fetched two projects and left both cached,
\* the one it was not asked for included.
C17_Witness ==
    /\ last.op = "get_project"
    /\ Len(last.fetches) = 1
    /\ IsOk(last.fetches[1].outcome)
    /\ Len(last.fetches[1].outcome.val) = 2
    /\ \A p \in ProjectIds : IsSome(project_cache[<<last.workspace_id, p>>])
    /\ IsOk(last.result) /\ IsSome(last.result.val)

-----------------------------------------------------------------------------
(* C18 *)

\* C18: when the current-entry fetch returns an entry, stop_current_time_entry
\* issues exactly one stop request, keyed by the workspace id and the id of
\* that entry, and a TimeEntry it returns is assembled from the stop response.
C18_StopsFetchedEntry ==
    (/\ last.op = "stop_current_time_entry"
     /\ IsSome(last.current)
     /\ Unwrap(last.current).http = "ok"
     /\ IsSome(Unwrap(last.current).body))
    => LET fetched == Unwrap(Unwrap(last.current).body) IN
       /\ last.stops = <<StopRequest(fetched.workspace_id, fetched.id)>>
       /\ Len(last.entries) = 1
       /\ IsOk(last.result) =>
             /\ IsOk(last.entries[1])
             /\ IsSome(last.result.val)
             /\ AssembledFrom(Unwrap(last.result.val), last.entries[1].val)

\* The entry with id 2 of workspace 1 was fetched as current and stopped; the
\* TimeEntry returned is the stopped entry of the stop response, which is of
\* another workspace and has a project.
C18_Witness ==
    /\ last.op = "stop_current_time_entry"
    /\ last.stops = <<StopRequest(Num(1), Num(2))>>
    /\ IsOk(last.result) /\ IsSome(last.result.val)
    /\ ~Unwrap(last.result.val).is_running
    /\ Unwrap(last.result.val).workspace_id = NumWorkspaces
    /\ IsSome(Unwrap(last.result.val).project_id)

-----------------------------------------------------------------------------
(* C19 *)

\* The codec was called on the duration that start_time_entry submits for the
\* clock reading codec_now, at the instant codec_now.
DecodesOwnEncoding ==
    /\ CodecCalled
    /\ codec_raw = NewTimeEntry(1, None, None, codec_now, overflow_checks).duration

\* The codec has returned a running duration of zero whole seconds.
RunningZeroSeconds(out) ==
    /\ IsOk(out)
    /\ out.is_running
    /\ num_seconds(out.duration) = 0

\* C19 as stated: for every clock reading now, decoding at now the duration
\* that start_time_entry submits for now yields is_running = true and zero
\* whole seconds.
C19_RoundTrip ==
    DecodesOwnEncoding => RunningZeroSeconds(codec_out)

\* C19, amended: the round trip holds for every clock reading after the epoch
\* second 0; for a reading in second 0 or before it, the submitted duration
\* is not negative and decodes as a stopped entry of that many seconds.
C19_RoundTripAfterEpoch ==
    DecodesOwnEncoding =>
        /\ timestamp(codec_now) > 0 =>
              /\ RunningZeroSeconds(codec_out)
              /\ subsec_nanos(codec_out.duration) = codec_now.frac
        /\ timestamp(codec_now) <= 0 =>
              /\ IsOk(codec_out)
              /\ ~codec_out.is_running
              /\ num_seconds(codec_out.duration) = -timestamp(codec_now)

\* The duration submitted for a reading after the epoch, with a sub-second
\* part, was decoded at that reading.
C19_Witness ==
    /\ DecodesOwnEncoding
    /\ timestamp(codec_now) > 0
    /\ codec_now.frac > 0
    /\ RunningZeroSeconds(codec_out)

-----------------------------------------------------------------------------
(* C20 *)

\* C20: one start_time_entry call reads the clock exactly once.
C20_ClockReadOnce ==
    last.op = "start_time_entry" => Len(last.clock) = 1

-----------------------------------------------------------------------------
(* C21 *)

\* The codec's outcome is the exact result for the i64 v at now: v seconds and
\* not running, or running since the epoch second -v, negated without
\* wrap-around and an instant DateTime<Utc> holds.
ExactResult(out, now, v) ==
    /\ IsOk(out)
    /\ \/ /\ v >= 0
          /\ out = Parsed(Dur(v, 0), FALSE)
       \/ /\ v < 0
          /\ out.is_running
          /\ -v \in TimestampMin .. TimestampMax
          /\ out.duration.nanos \in 0 .. FracMax
          /\ DurTicks(out.duration) = InstantTicks(now) - (-v) * TicksPerSec

\* C21: for every raw duration in the i64 range, under either build profile,
\* parse_duration returns the exact result or panics; for i64::MIN it panics.
C21_ExactOrPanic ==
    (CodecCalled /\ codec_raw.k = "i64") =>
        /\ IsPanic(codec_out) \/ ExactResult(codec_out, codec_now, codec_raw.v)
        /\ codec_raw.v = I64_MIN => IsPanic(codec_out)

\* Without overflow checks the negation of i64::MIN has wrapped around and
\* the call has panicked on the timestamp.
C21_Witness ==
    /\ CodecCalled
    /\ ~overflow_checks
    /\ codec_raw = Num(I64_MIN)
    /\ Neg(codec_raw.v, overflow_checks) = Some(I64_MIN)
    /\ IsPanic(codec_out)

-----------------------------------------------------------------------------
(* C22 *)

\* C22: a get_project(W, id) call issues exactly one project fetch, for W, if
\* (W, id) is not cached when it is called, and none if it is; a call that
\* came back absent leaves the key uncached, so the same call made again
\* fetches again.
C22_FetchCount ==
    [][\A k \in Keys :
          (/\ Performs("get_project")
           /\ last'.workspace_id = k[1] /\ last'.project_id = Some(k[2]))
          => /\ IsSome(project_cache[k]) => last'.fetches = <<>>
             /\ IsNone(project_cache[k]) =>
                   /\ Len(last'.fetches) = 1
                   /\ last'.fetches[1].workspace_id = k[1]
             /\ last'.result = Ok(None) => IsNone(project_cache'[k])
             /\ (/\ last.op = "get_project"
                 /\ last.workspace_id = k[1] /\ last.project_id = Some(k[2])
                 /\ last.result = Ok(None))
                => Len(last'.fetches) = 1]_vars

\* A project of the workspace is cached, so the workspace has been fetched
\* before; get_project for an id the remote does not return has fetched it
\* again and come back absent.
C22_Witness ==
    /\ last.op = "get_project"
    /\ Len(last.fetches) = 1
    /\ IsOk(last.fetches[1].outcome)
    /\ last.fetches[1].outcome.val = <<>>
    /\ last.result = Ok(None)
    /\ \E p \in ProjectIds : IsSome(project_cache[<<last.workspace_id, p>>])

-----------------------------------------------------------------------------
(* C23 *)

\* A successful project fetch of the operation rec, requested for workspace
\* w, returned project p with the data d.
FetchedFor(rec, w, p, d) ==
    \E i \in OkFetches(rec, w) :
        \E j \in 1 .. Len(rec.fetches[i].outcome.val) :
            /\ Names(rec.fetches[i].outcome.val, j, p)
            /\ ProjectData(rec.fetches[i].outcome.val[j]) = d

\* C23: every cache entry under (W, P) holds a project with the id P, and it
\* entered the cache in an operation with a successful project fetch that
\* was requested for W and returned it; the workspace_id field of the raw
\* project plays no part in the key.
C23_KeyedByRequest ==
    [][\A k \in Keys :
          IsSome(project_cache'[k]) =>
             /\ Unwrap(project_cache'[k]).id = k[2]
             /\ IsNone(project_cache[k]) =>
                   FetchedFor(last', k[1], k[2], DataOf(Unwrap(project_cache'[k])))]_vars

\* A fetch requested for the last workspace has returned a project whose
\* workspace_id field names workspace 1; it is cached under the requested
\* workspace and nothing is cached under workspace 1.
C23_Witness ==
    /\ NumWorkspaces /= 1
    /\ \E p \in ProjectIds :
          /\ IsSome(project_cache[<<NumWorkspaces, p>>])
          /\ \E i \in OkFetches(last, NumWorkspaces) :
                \E j \in 1 .. Len(last.fetches[i].outcome.val) :
                    /\ Names(last.fetches[i].outcome.val, j, p)
                    /\ last.fetches[i].outcome.val[j].workspace_id = Num(1)
    /\ \A p \in ProjectIds : IsNone(project_cache[<<1, p>>])

-----------------------------------------------------------------------------
(* C24 *)

\* The entries of the listing that name a project.
WithProject(es) == {i \in 1 .. Len(es) : IsSome(es[i].project_id)}

\* Every project fetch of the listing succeeded, and its response holds every
\* project id that an entry of the fetched workspace names.
ResponsesCover(rec) ==
    LET es == rec.entries[1].val IN
    \A n \in 1 .. Len(rec.fetches) :
        /\ IsOk(rec.fetches[n].outcome)
        /\ \A i \in WithProject(es) :
              es[i].workspace_id = Num(rec.fetches[n].workspace_id) =>
                 \E j \in 1 .. Len(rec.fetches[n].outcome.val) :
                     rec.fetches[n].outcome.val[j].id = Unwrap(es[i].project_id)

\* C24: in a get_latest_entries call whose project fetches all return every
\* project id the entries of the fetched workspace name, the number of
\* project fetches is at most the number of distinct workspaces of the
\* entries that name a project.
C24_BatchFetchBound ==
    (/\ last.op = "get_latest_entries"
     /\ IsOk(last.entries[1])
     /\ ResponsesCover(last))
    => LET es == last.entries[1].val IN
       Len(last.fetches) <= Cardinality({es[i].workspace_id : i \in WithProject(es)})

\* A listing of two entries of one workspace that name different projects
\* was assembled with a single fetch, which returned both projects.
C24_Witness ==
    /\ last.op = "get_latest_entries"
    /\ IsOk(last.entries[1])
    /\ ResponsesCover(last)
    /\ LET es == last.entries[1].val IN
       /\ Len(es) = 2
       /\ WithProject(es) = {1, 2}
       /\ es[1].workspace_id = es[2].workspace_id
       /\ es[1].project_id /= es[2].project_id
    /\ Len(last.fetches) = 1
    /\ Len(last.fetches[1].outcome.val) = 2
    /\ Len(last.built) = 2
    /\ IsOk(last.built[2]) /\ IsSome(last.built[2].val.project_name)

=============================================================================
